---- MODULE Spec2Model ----
(***************************************************************************)
(* Adafruit_CircuitPython_EPD: the IL0373 e-paper driver (il0373.py) on    *)
(* top of the display base class (epd.py), as a state machine.             *)
(*                                                                         *)
(* Pins and the bus are named by the driver field that holds them          *)
(* (self._cs -> cs, self._dc -> dc, self._rst -> rst, self._busy -> busy,  *)
(* self.sram.cs_pin -> sram_cs, self.spi_device's lock -> locked).  A pin  *)
(* value TRUE is electrically high; both chip-selects are active low.      *)
(*                                                                         *)
(* Methods that touch pins, the lock or the bus (begin, command, data,     *)
(* power_up, display, update) are modelled statement by statement: pc is   *)
(* the position of the single thread, and a label "cmd53", "disp127", ... *)
(* carries the source line of the statement that runs next.  pixel(),      *)
(* fill() and image() only call the auxiliary store's read8/write8/erase,  *)
(* and the drawing surface of the base class only calls draw_pixel; each   *)
(* of them is one action.                                                  *)
(***************************************************************************)
EXTENDS Integers, Sequences, FiniteSets, TLC

VARIABLES
    width, height,   \* self.width, self.height
    sram,            \* contents of the auxiliary store: address -> byte
    sram_st,         \* the store chip's protocol state [mode, ptr]
    cs, dc, rst,     \* self._cs.value, self._dc.value, self._rst.value
    sram_cs,         \* self.sram.cs_pin.value
    busy,            \* self._busy.value (driven by the panel)
    locked,          \* the bus lock is held
    unlock_err,      \* unlock() was called on an unheld lock during this call
    pc,              \* position of the thread; "idle" between API calls
    ret,             \* where command() returns to
    op,              \* the API call in progress
    reset,           \* begin()'s argument
    carg,            \* command()'s arguments [cmd, has_data, data, end]
    outbuf,          \* command()'s outbuf[0]; the value command() returns
    xfer,            \* display()'s xfer[0]
    i,               \* display()'s loop counter
    bus,             \* bus operations issued during the current API call
    last,            \* the most recent store or drawing call and the store before it
    inv,             \* run of consecutive identical pixel(x, y, INVERSE) calls
    nops             \* API calls made so far

vars == <<width, height, sram, sram_st, cs, dc, rst, sram_cs, busy, locked,
          unlock_err, pc, ret, op, reset, carg, outbuf, xfer, i, bus, last,
          inv, nops>>

----------------------------------------------------------------------------
(* Bounds of the model.                                                     *)

\* API calls per behaviour.
MaxOps == 2

\* Panel geometries, <<width, height>>, each with width*height divisible by 8.
Geoms == {<<4, 2>>, <<2, 8>>}

\* Geometries for the resolution payload (no store contents are modelled).
BigGeoms == {<<w, h>> : w \in {2, 152, 255, 256, 296}, h \in {8, 104, 152, 256, 300}}

\* Initial contents of the store.
InitPatterns == {"zero", "ones", "mixed"}

\* What the bus reads when no device drives the input line.
MisoIdle == {0, 255}

----------------------------------------------------------------------------
(* Constants of the program.                                                *)

BLACK == 0
WHITE == 1
INVERSE == 2
RED == 3
DARK == 4
LIGHT == 5
Colors == {BLACK, WHITE, INVERSE, RED, DARK, LIGHT}

IL0373_POWER_SETTING == 1
IL0373_PANEL_SETTING == 0
IL0373_POWER_OFF == 2
IL0373_POWER_ON == 4
IL0373_BOOSTER_SOFT_START == 6
IL0373_DEEP_SLEEP == 7
IL0373_DTM1 == 16
IL0373_DISPLAY_REFRESH == 18
IL0373_DTM2 == 19
IL0373_PLL == 48
IL0373_CDI == 80
IL0373_RESOLUTION == 97
IL0373_VCM_DC_SETTING == 130

\* Adafruit_MCP_SRAM.SRAM_READ, the store's sequential-read opcode.
SRAM_READ == 3

----------------------------------------------------------------------------
(* Bytes.                                                                   *)

Byte == 0..255

Bit(b, k) == (b \div (2 ^ k)) % 2

\* current | (1 << k)
OrBit(b, k) == IF Bit(b, k) = 1 THEN b ELSE b + 2 ^ k

\* current & ~(1 << k)
AndNotBit(b, k) == IF Bit(b, k) = 1 THEN b - 2 ^ k ELSE b

\* An or where the exclusive or belongs.
Mut_XorBit(b, k) == IF Bit(b, k) = 1 THEN b ELSE b + 2 ^ k

\* current ^ (1 << k)
XorBit(b, k) == IF Bit(b, k) = 1 THEN b - 2 ^ k ELSE b + 2 ^ k

----------------------------------------------------------------------------
(* Geometry and the auxiliary store.                                        *)

bw_bufsize == (width * height) \div 8

red_bufsize == (width * height) \div 8

\* The store is larger than the two planes; the model keeps the planes and
\* the one byte after them, which the sequential read of the red plane
\* prefetches.
SramAddrs == 0..(bw_bufsize + red_bufsize)

Pattern(p, a) ==
    CASE p = "zero" -> 0
      [] p = "ones" -> 255
      [] OTHER -> (165 + 55 * a) % 256

read8(s, addr) == s[addr]

write8(s, addr, value) == [s EXCEPT ![addr] = value]

erase(s, addr, length, value) ==
    [a \in DOMAIN s |-> IF a >= addr /\ a < addr + length THEN value ELSE s[a]]

----------------------------------------------------------------------------
(* pixel() and fill() of the controller driver.                             *)

\* A bounds test that lets x = width through.
Mut_InRange(x, y) == ~((x < 0) \/ (x > width) \/ (y < 0) \/ (y >= height))

\* The bounds test of pixel(): the call goes on only when this holds.
InRange(x, y) == ~((x < 0) \/ (x >= width) \/ (y < 0) \/ (y >= height))

\* if x == 0: x = 1
PixelCol(x) == IF x = 0 THEN 1 ELSE x

\* addr = ((self.width - x) * self.height + y) // 8
PixelAddr(x, y) == ((width - x) * height + y) \div 8

\* The bit counted from the other end of the byte.
Mut_PixelBit(y) == y % 8

\* The bit of the byte that pixel() changes: 1 << (7 - y%8)
PixelBit(y) == 7 - (y % 8)

\* RED addressed in the black/white plane.
Mut_PixelTarget(x, y, color) == PixelAddr(PixelCol(x), y)

\* The store address pixel() reads and writes: RED goes to the red plane.
PixelTarget(x, y, color) ==
    IF color = RED
    THEN PixelAddr(PixelCol(x), y) + bw_bufsize
    ELSE PixelAddr(PixelCol(x), y)

\* The byte pixel() writes back, from the byte it read.
PixelValue(current, y, color) ==
    IF color = WHITE THEN OrBit(current, PixelBit(y))
    ELSE IF color \in {RED, BLACK} THEN AndNotBit(current, PixelBit(y))
    ELSE IF color = INVERSE THEN XorBit(current, PixelBit(y))
    ELSE current

\* The store after pixel(x, y, color) on store s.
PixelStore(s, x, y, color) ==
    IF ~InRange(x, y) THEN s
    ELSE write8(s, PixelTarget(x, y, color),
                PixelValue(read8(s, PixelTarget(x, y, color)), y, color))

\* The store accesses pixel(x, y, color) makes, in order.
PixelAccess(x, y, color) ==
    IF ~InRange(x, y) THEN <<>>
    ELSE << <<"read8", PixelTarget(x, y, color)>>,
            <<"write8", PixelTarget(x, y, color)>> >>

black_fill(color) == IF color = BLACK THEN 0 ELSE 255

\* The red plane cleared on the wrong colour.
Mut_red_fill(color) == IF color = BLACK THEN 0 ELSE 255

red_fill(color) == IF color = RED THEN 0 ELSE 255

\* The store after fill(color) on store s.
FillStore(s, color) ==
    erase(erase(s, 0, bw_bufsize, black_fill(color)),
          bw_bufsize, red_bufsize, red_fill(color))

FillAccess(color) ==
    << <<"erase", 0, bw_bufsize, black_fill(color)>>,
       <<"erase", bw_bufsize, red_bufsize, red_fill(color)>> >>

----------------------------------------------------------------------------
(* State between API calls.                                                 *)

NoArgs == [cmd |-> 0, has_data |-> FALSE, data |-> <<>>, end |-> TRUE]

\* No image: the img field of a call that takes none.
NoImage == [mode |-> "none", size |-> <<0, 0>>, pix |-> <<>>]

NoCall(s) == [call |-> "none", x |-> 0, y |-> 0, w |-> 0, h |-> 0, color |-> 0,
              img |-> NoImage, before |-> s, acc |-> <<>>, err |-> "none"]

NoRun(s) == [run |-> 0, base |-> s]

ChipIdle == [mode |-> "idle", ptr |-> 0]

\* The pins, lock, bus and thread position are not touched.
HardwareUnchanged ==
    UNCHANGED <<width, height, sram_st, cs, dc, rst, sram_cs, busy, locked,
                pc, ret, reset, carg, outbuf, xfer, i>>

pixel(x, y, color) ==
    /\ pc = "idle"
    /\ nops < MaxOps
    /\ sram' = PixelStore(sram, x, y, color)
    /\ last' = [call |-> "pixel", x |-> x, y |-> y, w |-> 0, h |-> 0,
                color |-> color, img |-> NoImage,
                before |-> sram, acc |-> PixelAccess(x, y, color),
                err |-> "none"]
    /\ inv' = IF color = INVERSE /\ InRange(x, y)
              THEN IF last.call = "pixel" /\ last.color = INVERSE
                      /\ last.x = x /\ last.y = y
                   THEN [run |-> 2, base |-> last.before]
                   ELSE [run |-> 1, base |-> sram]
              ELSE NoRun(sram')
    /\ nops' = nops + 1
    /\ op' = "pixel"
    /\ bus' = <<>>
    /\ unlock_err' = FALSE
    /\ HardwareUnchanged

fill(color) ==
    /\ pc = "idle"
    /\ nops < MaxOps
    /\ sram' = FillStore(sram, color)
    /\ last' = [call |-> "fill", x |-> 0, y |-> 0, w |-> 0, h |-> 0,
                color |-> color, img |-> NoImage,
                before |-> sram, acc |-> FillAccess(color), err |-> "none"]
    /\ inv' = NoRun(sram')
    /\ nops' = nops + 1
    /\ op' = "fill"
    /\ bus' = <<>>
    /\ unlock_err' = FALSE
    /\ HardwareUnchanged

----------------------------------------------------------------------------
(* The bus, its lock and the store chip on it.                              *)

\* One byte shifted out on the bus, with the lines as they are at that time.
Entry(kind, b) == [kind |-> kind, out |-> b, cs |-> cs, dc |-> dc,
                   sram_cs |-> sram_cs, locked |-> locked]

\* The store chip's reaction to one byte clocked in while it is selected:
\* opcode, two address bytes (high, low), then one byte read per byte clocked.
ChipClock(st, b) ==
    CASE st.mode = "cmd" ->
            IF b = SRAM_READ THEN [mode |-> "addr_hi", ptr |-> 0]
            ELSE [mode |-> "other", ptr |-> 0]
      [] st.mode = "addr_hi" -> [mode |-> "addr_lo", ptr |-> b * 256]
      [] st.mode = "addr_lo" -> [mode |-> "read", ptr |-> st.ptr + b]
      [] st.mode = "read" -> [mode |-> "read", ptr |-> st.ptr + 1]
      [] OTHER -> st

ChipSees(st, b) == IF sram_cs = FALSE THEN ChipClock(st, b) ELSE st

RECURSIVE ChipFeed(_, _)
ChipFeed(st, bytes) ==
    IF bytes = <<>> THEN st
    ELSE ChipFeed(ChipSees(st, Head(bytes)), Tail(bytes))

\* The byte the bus shifts in during an exchange: the store's current byte
\* when the store is selected and reading, otherwise whatever the idle line
\* reads.
Miso ==
    IF sram_cs = FALSE /\ sram_st.mode = "read" /\ sram_st.ptr \in DOMAIN sram
    THEN {sram[sram_st.ptr]}
    ELSE MisoIdle

\* spi_device.write(bytes)
BusWrite(bytes) ==
    /\ bus' = bus \o [k \in 1..Len(bytes) |-> Entry("write", bytes[k])]
    /\ sram_st' = ChipFeed(sram_st, bytes)

\* spi_device.write_readinto([b], inbuf); v is the byte read into inbuf.
BusExchange(b, v) ==
    /\ v \in Miso
    /\ bus' = Append(bus, Entry("write_readinto", b))
    /\ sram_st' = ChipSees(sram_st, b)

\* while not spi_device.try_lock(): pass -- leaves the loop once the lock is free.
TryLock == locked = FALSE /\ locked' = TRUE

\* spi_device.unlock()
Unlock == locked' = FALSE /\ unlock_err' = (unlock_err \/ ~locked)

\* Never changed by a statement of begin/command/power_up/display/update.
Frame == <<width, height, sram, last, inv, nops, busy>>

Locals == <<ret, op, reset, carg, outbuf, xfer, i>>

SetCs(from, v, to) ==
    /\ pc = from /\ pc' = to
    /\ cs' = v
    /\ UNCHANGED <<Frame, Locals, dc, rst, sram_cs, sram_st, locked, unlock_err, bus>>

SetDc(from, v, to) ==
    /\ pc = from /\ pc' = to
    /\ dc' = v
    /\ UNCHANGED <<Frame, Locals, cs, rst, sram_cs, sram_st, locked, unlock_err, bus>>

SetRst(from, v, to) ==
    /\ pc = from /\ pc' = to
    /\ rst' = v
    /\ UNCHANGED <<Frame, Locals, cs, dc, sram_cs, sram_st, locked, unlock_err, bus>>

\* self.sram.cs_pin.value = v: the store chip starts or ends a transaction.
SetSramCs(from, v, to) ==
    /\ pc = from /\ pc' = to
    /\ sram_cs' = v
    /\ sram_st' = IF v THEN ChipIdle ELSE [mode |-> "cmd", ptr |-> 0]
    /\ UNCHANGED <<Frame, Locals, cs, dc, rst, locked, unlock_err, bus>>

LockAt(from, to) ==
    /\ pc = from /\ pc' = to
    /\ TryLock
    /\ UNCHANGED <<Frame, Locals, cs, dc, rst, sram_cs, sram_st, unlock_err, bus>>

UnlockAt(from, to) ==
    /\ pc = from /\ pc' = to
    /\ Unlock
    /\ UNCHANGED <<Frame, Locals, cs, dc, rst, sram_cs, sram_st, bus>>

WriteAt(from, bytes, to) ==
    /\ pc = from /\ pc' = to
    /\ BusWrite(bytes)
    /\ UNCHANGED <<Frame, Locals, cs, dc, rst, sram_cs, locked, unlock_err>>

\* while self._busy.value is False: pass
WaitAt(from, to) ==
    /\ pc = from /\ pc' = to
    /\ busy = TRUE
    /\ UNCHANGED <<Frame, Locals, cs, dc, rst, sram_cs, sram_st, locked, unlock_err, bus>>

\* time.sleep(...)
SleepAt(from, to) ==
    /\ pc = from /\ pc' = to
    /\ UNCHANGED <<Frame, Locals, cs, dc, rst, sram_cs, sram_st, locked, unlock_err, bus>>

----------------------------------------------------------------------------
(* Adafruit_EPD.command() and data(), statement by statement.               *)

command_51 == SetCs("cmd51", TRUE, "cmd52")

command_52 == SetDc("cmd52", FALSE, "cmd53")

\* self._cs.value = False; outbuf = bytearray(1)
command_53 ==
    /\ pc = "cmd53" /\ pc' = "cmd56"
    /\ cs' = FALSE
    /\ outbuf' = 0
    /\ UNCHANGED <<Frame, ret, op, reset, carg, xfer, i, dc, rst, sram_cs,
                   sram_st, locked, unlock_err, bus>>

\* command() that goes on without the lock.
Mut_command_56 == SleepAt("cmd56", "cmd58")

command_56 == LockAt("cmd56", "cmd58")

\* The statement command() runs after the exchange of the command byte.
AfterExchange(a) ==
    IF a.has_data THEN "data71"
    ELSE IF a.end THEN "cmd64"
    ELSE "cmd66"

\* self.spi_device.write_readinto(bytearray([cmd]), outbuf)
command_58 ==
    /\ pc = "cmd58" /\ pc' = AfterExchange(carg)
    /\ \E v \in Byte : BusExchange(carg.cmd, v) /\ outbuf' = v
    /\ UNCHANGED <<Frame, ret, op, reset, carg, xfer, i, cs, dc, rst, sram_cs,
                   locked, unlock_err>>

data_71 == SetDc("data71", TRUE, "data72")

data_72 == WriteAt("data72", carg.data, "data73")

data_73 == SetCs("data73", TRUE, "data74")

data_74 == UnlockAt("data74", "cmd66")

command_64 == SetCs("cmd64", TRUE, "cmd66")

command_66 == UnlockAt("cmd66", "cmd67")

\* return outbuf[0]
command_67 ==
    /\ pc = "cmd67" /\ pc' = ret
    /\ UNCHANGED <<Frame, Locals, cs, dc, rst, sram_cs, sram_st, locked,
                   unlock_err, bus>>

----------------------------------------------------------------------------
(* The calls of command() in begin, power_up, display and update.           *)

Site(c, hd, d, e, n) ==
    [cmd |-> c, has_data |-> hd, data |-> d, end |-> e, next |-> n]

\* Width before height.
Mut_ResolutionPayload ==
    << width % 256, (width \div 256) % 256,
       height % 256, (height \div 256) % 256 >>

\* bytearray([_b1, _b2, _b3, _b4])
ResolutionPayload ==
    << height % 256, (height \div 256) % 256,
       width % 256, (width \div 256) % 256 >>

begin_calls ==
    [begin80 |-> Site(IL0373_POWER_SETTING, TRUE, <<3, 0, 43, 43, 9>>, TRUE, "begin81"),
     begin81 |-> Site(IL0373_BOOSTER_SOFT_START, TRUE, <<23, 23, 23>>, TRUE, "return")]

\* PLL sent before CDI.
Mut_power_up_calls ==
    [pu100 |-> Site(IL0373_POWER_ON, FALSE, <<>>, TRUE, "pu102"),
     pu109 |-> Site(IL0373_PANEL_SETTING, TRUE, <<207>>, TRUE, "pu110"),
     pu110 |-> Site(IL0373_PLL, TRUE, <<41>>, TRUE, "pu111"),
     pu111 |-> Site(IL0373_CDI, TRUE, <<55>>, TRUE, "pu116"),
     pu116 |-> Site(IL0373_RESOLUTION, TRUE, ResolutionPayload, TRUE, "pu117"),
     pu117 |-> Site(IL0373_VCM_DC_SETTING, TRUE, <<10>>, TRUE, "pu_end")]

power_up_calls ==
    [pu100 |-> Site(IL0373_POWER_ON, FALSE, <<>>, TRUE, "pu102"),
     pu109 |-> Site(IL0373_PANEL_SETTING, TRUE, <<207>>, TRUE, "pu110"),
     pu110 |-> Site(IL0373_CDI, TRUE, <<55>>, TRUE, "pu111"),
     pu111 |-> Site(IL0373_PLL, TRUE, <<41>>, TRUE, "pu116"),
     pu116 |-> Site(IL0373_RESOLUTION, TRUE, ResolutionPayload, TRUE, "pu117"),
     pu117 |-> Site(IL0373_VCM_DC_SETTING, TRUE, <<10>>, TRUE, "pu_end")]

display_calls ==
    [disp136 |-> Site(IL0373_DTM1, FALSE, <<>>, FALSE, "disp138"),
     disp160 |-> Site(IL0373_DTM2, FALSE, <<>>, FALSE, "disp162")]

update_calls ==
    [up85 |-> Site(IL0373_DISPLAY_REFRESH, FALSE, <<>>, TRUE, "up87"),
     up93 |-> Site(IL0373_CDI, TRUE, <<23>>, TRUE, "up94"),
     up94 |-> Site(IL0373_VCM_DC_SETTING, TRUE, <<0>>, TRUE, "up95"),
     up95 |-> Site(IL0373_POWER_OFF, FALSE, <<>>, TRUE, "up96")]

CallSites == begin_calls @@ power_up_calls @@ display_calls @@ update_calls

\* self.command(...) at one of the call sites: enter command().
Call ==
    /\ pc \in DOMAIN CallSites
    /\ pc' = "cmd51"
    /\ carg' = [cmd |-> CallSites[pc].cmd, has_data |-> CallSites[pc].has_data,
                data |-> CallSites[pc].data, end |-> CallSites[pc].end]
    /\ ret' = CallSites[pc].next
    /\ UNCHANGED <<Frame, op, reset, outbuf, xfer, i, cs, dc, rst, sram_cs,
                   sram_st, locked, unlock_err, bus>>

----------------------------------------------------------------------------
(* begin(): Adafruit_EPD.begin, then the busy wait and two commands.        *)

begin_40 == SetCs("begin40", TRUE, "begin41")

\* self._dc.value = False; if reset:
begin_41 ==
    /\ pc = "begin41" /\ pc' = (IF reset THEN "begin44" ELSE "begin77")
    /\ dc' = FALSE
    /\ UNCHANGED <<Frame, Locals, cs, rst, sram_cs, sram_st, locked, unlock_err, bus>>

begin_44 == SetRst("begin44", FALSE, "begin46")

begin_46 == SetRst("begin46", TRUE, "begin77")

begin_77 == WaitAt("begin77", "begin80")

----------------------------------------------------------------------------
(* power_up(), display() and update().  self._busy and self.sram are        *)
(* objects built by the constructor, so "if self._busy" and "if self.sram"  *)
(* take their first branch.                                                 *)

power_up_102 == WaitAt("pu102", "pu107")

power_up_107 == SleepAt("pu107", "pu109")

\* power_up() returns: to its caller display(), or to the application.
power_up_return ==
    /\ pc = "pu_end" /\ pc' = (IF op = "power_up" THEN "return" ELSE "disp125")
    /\ UNCHANGED <<Frame, Locals, cs, dc, rst, sram_cs, sram_st, locked,
                   unlock_err, bus>>

display_125 == LockAt("disp125", "disp127")

display_127 == SetSramCs("disp127", FALSE, "disp129")

display_129 == WriteAt("disp129", <<SRAM_READ>>, "disp131")

display_131 == WriteAt("disp131", <<0, 0>>, "disp132")

display_132 == UnlockAt("disp132", "disp136")

display_138 == LockAt("disp138", "disp140")

display_140 == SetDc("disp140", TRUE, "disp141")

\* The loop started with an empty xfer instead of the byte command() returned.
Mut_TransferStart(from, to) ==
    /\ pc = from /\ pc' = to
    /\ xfer' = 0
    /\ i' = 0
    /\ UNCHANGED <<Frame, ret, op, reset, carg, outbuf, cs, dc, rst, sram_cs,
                   sram_st, locked, unlock_err, bus>>

\* xfer = bytearray([cmd]); outbuf = bytearray(1); the loop starts
TransferStart(from, to) ==
    /\ pc = from /\ pc' = to
    /\ xfer' = outbuf
    /\ i' = 0
    /\ UNCHANGED <<Frame, ret, op, reset, carg, outbuf, cs, dc, rst, sram_cs,
                   sram_st, locked, unlock_err, bus>>

\* for _ in range(n): outbuf[0] = xfer[0]; write_readinto(outbuf, xfer)
TransferByte(at, n) ==
    /\ pc = at /\ pc' = at
    /\ i < n
    /\ \E v \in Byte : BusExchange(xfer, v) /\ xfer' = v
    /\ i' = i + 1
    /\ UNCHANGED <<Frame, ret, op, reset, carg, outbuf, cs, dc, rst, sram_cs,
                   locked, unlock_err>>

\* The loop's range is exhausted.
TransferEnd(at, n, to) ==
    /\ pc = at /\ pc' = to
    /\ ~(i < n)
    /\ UNCHANGED <<Frame, Locals, cs, dc, rst, sram_cs, sram_st, locked,
                   unlock_err, bus>>

\* range(self.bw_bufsize) of the first pass
Range143 == bw_bufsize

\* One exchange too many.
Mut_Range167 == bw_bufsize + 1

\* range(self.bw_bufsize) of the second pass
Range167 == bw_bufsize

display_141 == TransferStart("disp141", "disp143")

display_145 == TransferByte("disp143", Range143)

display_143_end == TransferEnd("disp143", Range143, "disp146")

\* The display left selected after the first pass.
Mut_display_146 == SetCs("disp146", FALSE, "disp147")

display_146 == SetCs("disp146", TRUE, "disp147")

\* The store left selected after the first pass.
Mut_display_147 == SetSramCs("disp147", FALSE, "disp149")

display_147 == SetSramCs("disp147", TRUE, "disp149")

display_149 == SleepAt("disp149", "disp151")

display_151 == SetSramCs("disp151", FALSE, "disp153")

display_153 == WriteAt("disp153", <<SRAM_READ>>, "disp155")

\* bytearray([(self.bw_bufsize >> 8), (self.bw_bufsize & 0xFF)])
display_155 ==
    WriteAt("disp155", <<bw_bufsize \div 256, bw_bufsize % 256>>, "disp156")

display_156 == UnlockAt("disp156", "disp160")

display_162 == LockAt("disp162", "disp164")

display_164 == SetDc("disp164", TRUE, "disp165")

display_165 == TransferStart("disp165", "disp167")

display_169 == TransferByte("disp167", Range167)

display_167_end == TransferEnd("disp167", Range167, "disp170")

display_170 == SetCs("disp170", TRUE, "disp171")

display_171 == SetSramCs("disp171", TRUE, "disp172")

\* self.spi_device.unlock(); then self.update()
display_172 == UnlockAt("disp172", "up85")

\* The fixed sleep of the else branch in place of the wait.
Mut_update_87 == SleepAt("up87", "up93")

update_87 == WaitAt("up87", "up93")

update_96 == SleepAt("up96", "return")

----------------------------------------------------------------------------
(* The API calls, the panel's busy line, and the specification.             *)

\* An API call that drives the hardware starts at its first statement.
Enter(name, first) ==
    /\ pc = "idle" /\ pc' = first
    /\ nops < MaxOps
    /\ nops' = nops + 1
    /\ op' = name
    /\ bus' = <<>>
    /\ unlock_err' = FALSE
    /\ last' = NoCall(sram)
    /\ inv' = NoRun(sram)
    /\ UNCHANGED <<width, height, sram, sram_st, cs, dc, rst, sram_cs, busy,
                   locked, outbuf, xfer, i>>

begin(r) ==
    /\ Enter("begin", "begin40")
    /\ reset' = r
    /\ UNCHANGED <<ret, carg>>

command(a) ==
    /\ Enter("command", "cmd51")
    /\ carg' = a
    /\ ret' = "return"
    /\ UNCHANGED reset

power_up ==
    /\ Enter("power_up", "pu100")
    /\ UNCHANGED <<ret, carg, reset>>

update ==
    /\ Enter("update", "up85")
    /\ UNCHANGED <<ret, carg, reset>>

\* display() starts with self.power_up()
display ==
    /\ Enter("display", "pu100")
    /\ UNCHANGED <<ret, carg, reset>>

\* The API call returns; its locals are gone.
Return ==
    /\ pc = "return" /\ pc' = "idle"
    /\ ret' = "idle"
    /\ reset' = FALSE
    /\ carg' = NoArgs
    /\ outbuf' = 0
    /\ xfer' = 0
    /\ i' = 0
    /\ UNCHANGED <<Frame, op, cs, dc, rst, sram_cs, sram_st, locked,
                   unlock_err, bus>>

\* The labels at which the thread polls the busy line.
WaitLabels == {"begin77", "pu102", "up87"}

\* The panel changes its busy line (seen by the driver only while it polls).
BusyChange ==
    /\ pc \in WaitLabels
    /\ busy' = ~busy
    /\ UNCHANGED <<width, height, sram, sram_st, cs, dc, rst, sram_cs, locked,
                   unlock_err, pc, ret, op, reset, carg, outbuf, xfer, i, bus,
                   last, inv, nops>>

\* Arguments of the application's own command() calls.
CommandArgs ==
    { [cmd |-> IL0373_DEEP_SLEEP, has_data |-> hd,
       data |-> (IF hd THEN <<165>> ELSE <<>>), end |-> e] :
      hd \in BOOLEAN, e \in BOOLEAN }

\* After construction: the output pins were switched to output (low), the
\* store's constructor left its chip-select high, nothing holds the lock.
InitHardware ==
    /\ sram_st = ChipIdle
    /\ cs = FALSE /\ dc = FALSE /\ rst = FALSE
    /\ sram_cs = TRUE
    /\ busy = TRUE
    /\ locked = FALSE
    /\ unlock_err = FALSE
    /\ pc = "idle" /\ ret = "idle" /\ op = "none"
    /\ reset = FALSE
    /\ carg = NoArgs
    /\ outbuf = 0 /\ xfer = 0 /\ i = 0
    /\ bus = <<>>
    /\ nops = 0

Init ==
    /\ \E g \in Geoms : width = g[1] /\ height = g[2]
    /\ sram \in {[a \in SramAddrs |-> Pattern(p, a)] : p \in InitPatterns}
    /\ last = NoCall(sram)
    /\ inv = NoRun(sram)
    /\ InitHardware

CommandSteps ==
    \/ Call
    \/ command_51 \/ command_52 \/ command_53 \/ command_56 \/ command_58
    \/ data_71 \/ data_72 \/ data_73 \/ data_74
    \/ command_64 \/ command_66 \/ command_67

BeginSteps ==
    \/ begin_40 \/ begin_41 \/ begin_44 \/ begin_46 \/ begin_77

PowerUpSteps ==
    \/ power_up_102 \/ power_up_107 \/ power_up_return

DisplaySteps ==
    \/ display_125 \/ display_127 \/ display_129 \/ display_131 \/ display_132
    \/ display_138 \/ display_140 \/ display_141 \/ display_145
    \/ display_143_end \/ display_146 \/ display_147 \/ display_149
    \/ display_151 \/ display_153 \/ display_155 \/ display_156
    \/ display_162 \/ display_164 \/ display_165 \/ display_169
    \/ display_167_end \/ display_170 \/ display_171 \/ display_172

UpdateSteps ==
    \/ update_87 \/ update_96

Next ==
    \/ \E x \in -1..width, y \in -1..height, color \in Colors : pixel(x, y, color)
    \/ \E color \in Colors : fill(color)
    \/ \E r \in BOOLEAN : begin(r)
    \/ \E a \in CommandArgs : command(a)
    \/ power_up
    \/ update
    \/ display
    \/ CommandSteps
    \/ BeginSteps
    \/ PowerUpSteps
    \/ DisplaySteps
    \/ UpdateSteps
    \/ BusyChange
    \/ Return

\* power_up() alone, on panels of any size: the store's contents play no part.
InitPowerUp ==
    /\ \E g \in BigGeoms : width = g[1] /\ height = g[2]
    /\ sram = <<>>
    /\ last = NoCall(sram)
    /\ inv = NoRun(sram)
    /\ InitHardware

NextPowerUp ==
    \/ power_up
    \/ CommandSteps
    \/ PowerUpSteps
    \/ BusyChange
    \/ Return

SpecPowerUp == InitPowerUp /\ [][NextPowerUp]_vars

Spec == Init /\ [][Next]_vars

\* display() alone, with the thread that runs it scheduled fairly: a
\* statement that can run does run.  A poll of the busy line can run only
\* while the line reads ready, and nothing obliges the panel to change the
\* line or the application to call display().
DisplayThread ==
    \/ CommandSteps
    \/ PowerUpSteps
    \/ DisplaySteps
    \/ UpdateSteps
    \/ Return

NextDisplay ==
    \/ display
    \/ DisplayThread
    \/ BusyChange

SpecDisplay == Init /\ [][NextDisplay]_vars /\ WF_vars(DisplayThread)

----------------------------------------------------------------------------
(* image(): bulk load of a Python Imaging Library image into the store.     *)

\* Pixel values of an RGB image, as image.load() returns them.
PixRed == <<255, 0, 0>>

PixBlack == <<0, 0, 0>>

PixWhite == <<255, 255, 255>>

PixDarkRed == <<254, 0, 0>>

PixelValues == {PixRed, PixBlack, PixWhite, PixDarkRed}

\* An image is a record of its mode, its size <<width, height>> and its
\* pixels pix[<<x, y>>]; these are the coordinates of an image of size z.
ImageCoords(z) == (0..(z[1] - 1)) \X (0..(z[2] - 1))

\* A validation that compares the width only.
Mut_ImageError(img) ==
    IF img.mode # "RGB" THEN "ValueError"
    ELSE IF img.size[1] # width THEN "ValueError"
    ELSE "none"

\* The two checks at the head of image(): what it raises, if anything.
ImageError(img) ==
    IF img.mode # "RGB" THEN "ValueError"
    ELSE IF img.size[1] # width \/ img.size[2] # height THEN "ValueError"
    ELSE "none"

\* if x == 0: x = 1 -- the column image() reads the pixel from and addresses.
ImageCol(x) == IF x = 0 THEN 1 ELSE x

\* addr = int(((self.width - x) * self.height + y)/8), plus bw_bufsize for
\* a pixel equal to (0xFF, 0, 0); the operands are not negative, so int()
\* of the quotient is the floor.
ImageTarget(img, x, y) ==
    LET addr == ((width - ImageCol(x)) * height + y) \div 8
    IN  IF img.pix[<<ImageCol(x), y>>] = PixRed THEN addr + bw_bufsize ELSE addr

\* The byte image() writes back for the pixel it read.
ImageValue(current, img, x, y) ==
    IF img.pix[<<ImageCol(x), y>>] \in {PixRed, PixBlack}
    THEN AndNotBit(current, 7 - (y % 8))
    ELSE OrBit(current, 7 - (y % 8))

\* One pass of the inner loop body, for the loop variables (x, y).
ImageStep(s, img, x, y) ==
    write8(s, ImageTarget(img, x, y),
           ImageValue(read8(s, ImageTarget(img, x, y)), img, x, y))

\* for y in range(size[1]): for x in range(size[0]): ... from the k-th pass on.
RECURSIVE ImageLoop(_, _, _)
ImageLoop(s, img, k) ==
    IF k >= img.size[1] * img.size[2] THEN s
    ELSE ImageLoop(ImageStep(s, img, k % img.size[1], k \div img.size[1]),
                   img, k + 1)

\* The store after image(img) on store s.
ImageStore(s, img) ==
    IF ImageError(img) # "none" THEN s ELSE ImageLoop(s, img, 0)

\* The store accesses image(img) makes, in order: a read8 and a write8 per pixel.
ImageAccess(img) ==
    IF ImageError(img) # "none" THEN <<>>
    ELSE [j \in 1..(2 * img.size[1] * img.size[2]) |->
            LET k == (j - 1) \div 2
            IN  <<IF j % 2 = 1 THEN "read8" ELSE "write8",
                  ImageTarget(img, k % img.size[1], k \div img.size[1])>>]

image(img) ==
    /\ pc = "idle"
    /\ nops < MaxOps
    /\ sram' = ImageStore(sram, img)
    /\ last' = [call |-> "image", x |-> 0, y |-> 0, w |-> 0, h |-> 0,
                color |-> 0, img |-> img,
                before |-> sram, acc |-> ImageAccess(img),
                err |-> ImageError(img)]
    /\ inv' = NoRun(sram')
    /\ nops' = nops + 1
    /\ op' = "image"
    /\ bus' = <<>>
    /\ unlock_err' = FALSE
    /\ HardwareUnchanged

\* The images of the model: of the panel's size, one colour with at most one
\* pixel of another value; and images of another mode or size.
Spots == {<<0, 0>>, <<1, 0>>, <<width - 1, height - 1>>}

PanelImages ==
    {[mode |-> "RGB", size |-> <<width, height>>,
      pix |-> [q \in ImageCoords(<<width, height>>) |-> IF q = p THEN d ELSE c]] :
        c \in {PixRed, PixBlack, PixWhite}, p \in Spots, d \in PixelValues}

OtherImages ==
    {[mode |-> m, size |-> z, pix |-> [q \in ImageCoords(z) |-> PixBlack]] :
        m \in {"RGB", "L"},
        z \in {<<width, height>>, <<width, height - 1>>, <<width + 1, height>>}}
    \ PanelImages

Images == PanelImages \cup OtherImages

NextImage == \E img \in Images : image(img)

SpecImage == Init /\ [][NextImage]_vars

----------------------------------------------------------------------------
(* The drawing surface of Adafruit_EPD: fill_rect and the methods written   *)
(* with it.  draw_pixel is `pass`, so the store is not touched; the calls   *)
(* of draw_pixel are recorded in last.acc as <<x, y, color>>.               *)

Min(a, b) == IF a < b THEN a ELSE b

Max(a, b) == IF a > b THEN a ELSE b

\* The number of parameters after self.
Arity == [fill_rect |-> 5, draw_pixel |-> 3]

\* self.method(args): Python binds self itself, so the call raises TypeError
\* unless args fill exactly the parameters after self.
CallError(method, args) ==
    IF Len(args) = Arity[method] THEN "none" ELSE "TypeError"

\* The draw_pixel calls of one fill_rect(x, y, w, h, color), in order.
FillRectDraws(x, y, w, h, color) ==
    IF w < 1 \/ h < 1 \/ (x + w) <= 0 THEN <<>>
    ELSE IF (y + h) <= 0 \/ y >= height \/ x >= width THEN <<>>
    ELSE LET xend == Min(width, x + w)
             yend == Min(height, y + h)
             x0 == Max(x, 0)
             y0 == Max(y, 0)
             nx == xend - x0
             ny == yend - y0
         IN  IF nx < 1 \/ ny < 1 THEN <<>>
             ELSE [k \in 1..(nx * ny) |->
                     <<x0 + ((k - 1) \div ny), y0 + ((k - 1) % ny), color>>]

\* A method body that is a list of self.fill_rect(...) calls, each given as
\* its tuple of explicit arguments: they run in order until one raises.
RECURSIVE RunFillRects(_, _)
RunFillRects(calls, drawn) ==
    IF calls = <<>> THEN [acc |-> drawn, err |-> "none"]
    ELSE IF CallError("fill_rect", Head(calls)) # "none"
    THEN [acc |-> drawn, err |-> CallError("fill_rect", Head(calls))]
    ELSE LET a == Head(calls)
         IN  RunFillRects(Tail(calls),
                          drawn \o FillRectDraws(a[1], a[2], a[3], a[4], a[5]))

\* self.fill_rect(self, 0, 0, self.width, self.height, color)
EPD_fill_calls(color) == << <<"self", 0, 0, width, height, color>> >>

hline_calls(x, y, w, color) == << <<x, y, w, 1, color>> >>

vline_calls(x, y, h, color) == << <<x, y, 1, h, color>> >>

rect_calls(x, y, w, h, color) ==
    << <<x, y, w, 1, color>>,
       <<x, y + h, w, 1, color>>,
       <<"self", x, y, 1, h, color>>,
       <<"self", x + w, y, 1, h, color>> >>

\* Adafruit_EPD.pixel: nothing out of range, else self.draw_pixel(self, x, y, color)
EPD_pixel_result(x, y, color) ==
    IF x < 0 \/ x >= width \/ y < 0 \/ y >= height
    THEN [acc |-> <<>>, err |-> "none"]
    ELSE IF CallError("draw_pixel", <<"self", x, y, color>>) # "none"
    THEN [acc |-> <<>>, err |-> CallError("draw_pixel", <<"self", x, y, color>>)]
    ELSE [acc |-> << <<x, y, color>> >>, err |-> "none"]

\* A drawing call: it is recorded with what it drew and raised.
Draw(name, x, y, w, h, color, result) ==
    /\ pc = "idle"
    /\ nops < MaxOps
    /\ last' = [call |-> name, x |-> x, y |-> y, w |-> w, h |-> h,
                color |-> color, img |-> NoImage, before |-> sram,
                acc |-> result.acc, err |-> result.err]
    /\ inv' = NoRun(sram)
    /\ nops' = nops + 1
    /\ op' = name
    /\ bus' = <<>>
    /\ unlock_err' = FALSE
    /\ UNCHANGED sram
    /\ HardwareUnchanged

fill_rect(x, y, w, h, color) ==
    Draw("fill_rect", x, y, w, h, color,
         RunFillRects(<< <<x, y, w, h, color>> >>, <<>>))

hline(x, y, w, color) ==
    Draw("hline", x, y, w, 1, color, RunFillRects(hline_calls(x, y, w, color), <<>>))

vline(x, y, h, color) ==
    Draw("vline", x, y, 1, h, color, RunFillRects(vline_calls(x, y, h, color), <<>>))

rect(x, y, w, h, color) ==
    Draw("rect", x, y, w, h, color, RunFillRects(rect_calls(x, y, w, h, color), <<>>))

EPD_fill(color) ==
    Draw("EPD_fill", 0, 0, width, height, color,
         RunFillRects(EPD_fill_calls(color), <<>>))

EPD_pixel(x, y, color) ==
    Draw("EPD_pixel", x, y, 1, 1, color, EPD_pixel_result(x, y, color))

\* Arguments of the drawing calls: corners from one outside the panel to its
\* far edge, extents from none to one more than the panel.
DrawXs == -1..width

DrawYs == {-1, 0, 1, height - 1, height}

DrawWs == {0, 1, 2, width + 1}

DrawHs == {0, 1, 2, height + 1}

NextDraw ==
    \/ \E x \in DrawXs, y \in DrawYs, w \in DrawWs, h \in DrawHs :
          fill_rect(x, y, w, h, RED)
    \/ \E x \in DrawXs, y \in DrawYs, w \in DrawWs : hline(x, y, w, BLACK)
    \/ \E x \in DrawXs, y \in DrawYs, h \in DrawHs : vline(x, y, h, BLACK)
    \/ \E x \in DrawXs, y \in DrawYs, w \in {1, 2}, h \in {1, 2} :
          rect(x, y, w, h, WHITE)
    \/ \E color \in Colors : EPD_fill(color)
    \/ \E x \in DrawXs, y \in DrawYs : EPD_pixel(x, y, INVERSE)

SpecDraw == Init /\ [][NextDraw]_vars

----------------------------------------------------------------------------
(* The constructors: which argument of Adafruit_IL0373(...) each field of   *)
(* the driver holds.                                                        *)

\* def __init__(self, width, height, rst_pin, dc_pin, busy_pin, srcs_pin,
\*              cs_pin, spi): the parameters of the base class, in order.
EPD_init_params ==
    <<"width", "height", "rst_pin", "dc_pin", "busy_pin", "srcs_pin", "cs_pin",
      "spi">>

\* super().__init__(width, height, spi, cs_pin, dc_pin, sramcs_pin, rst_pin,
\*                  busy_pin): the arguments of Adafruit_IL0373 passed on,
\* by position.
IL0373_init_passes ==
    <<"width", "height", "spi", "cs_pin", "dc_pin", "sramcs_pin", "rst_pin",
      "busy_pin">>

\* The argument of Adafruit_IL0373 that a parameter of the base class receives.
Bound(param) ==
    IL0373_init_passes[CHOOSE k \in 1..Len(EPD_init_params) :
                           EPD_init_params[k] = param]

\* The parameter of the base class each field is set from; the store is
\* built as Adafruit_MCP_SRAM(srcs_pin, spi).
FieldParam ==
    [f \in {"_rst", "_busy", "_dc", "_cs", "spi_device", "sram.cs_pin", "sram.spi"} |->
        CASE f = "_rst" -> "rst_pin"
          [] f = "_busy" -> "busy_pin"
          [] f = "_dc" -> "dc_pin"
          [] f = "_cs" -> "cs_pin"
          [] f = "spi_device" -> "spi"
          [] f = "sram.cs_pin" -> "srcs_pin"
          [] f = "sram.spi" -> "spi"]

\* The argument of Adafruit_IL0373 a field of the driver holds.
FieldArg(f) == Bound(FieldParam[f])

\* The statements that use each field, by label.
CsLabels == {"begin40", "cmd51", "cmd53", "data73", "cmd64", "disp146", "disp170"}

DcLabels == {"begin41", "cmd52", "data71", "disp140", "disp164"}

RstLabels == {"begin44", "begin46"}

SramCsLabels == {"disp127", "disp147", "disp151", "disp171"}

SpiLabels ==
    {"cmd56", "cmd58", "data72", "data74", "cmd66", "disp125", "disp129",
     "disp131", "disp132", "disp138", "disp143", "disp153", "disp155",
     "disp156", "disp162", "disp167", "disp172"}

----------------------------------------------------------------------------
(* What the claims are stated in.                                           *)

\* A byte the display controller takes as a command: it is selected and the
\* data/command line is low.
IsCommandByte(e) == e.cs = FALSE /\ e.dc = FALSE

\* A byte the display controller takes as data.
IsDataByte(e) == e.cs = FALSE /\ e.dc = TRUE

Outs(log) == [k \in 1..Len(log) |-> log[k].out]

\* The command opcodes the display controller received, in order.
Opcodes(log) == Outs(SelectSeq(log, IsCommandByte))

IsPrefix(s, t) == Len(s) <= Len(t) /\ \A k \in 1..Len(s) : s[k] = t[k]

\* The coordinates of the panel.
Coords == {<<x, y>> : x \in 0..(width - 1), y \in 0..(height - 1)}

\* The byte address and bit position the specification gives for (x, y).
SpecAddr(x, y) == ((width - (IF x = 0 THEN 1 ELSE x)) * height + y) \div 8

SpecBit(y) == 7 - (y % 8)

LastPixelInRange ==
    /\ last.call = "pixel"
    /\ <<last.x, last.y>> \in Coords

----------------------------------------------------------------------------
\* C1: every run of display() sends the display controller the command
\* opcodes 0x04, 0x00, 0x50, 0x30, 0x61, 0x82, 0x10, 0x13, 0x12, 0x50, 0x82,
\* 0x02 in this order and no others: at every point of the run the opcodes
\* sent so far are a prefix of that list, and at the return all of it.
DisplayOrder == <<4, 0, 80, 48, 97, 130, 16, 19, 18, 80, 130, 2>>

C1_DisplayCommandOrder ==
    op = "display" =>
        /\ IsPrefix(Opcodes(bus), DisplayOrder)
        /\ pc \in {"return", "idle"} => Opcodes(bus) = DisplayOrder

C1_Witness ==
    /\ op = "display"
    /\ pc = "return"
    /\ Len(Opcodes(bus)) = 12

\* C2: for every geometry with width*height divisible by 8, no two distinct
\* coordinates with 1 <= x < width, 0 <= y < height share the pair
\* (byte address, bit position) that pixel() computes.
C2_AddressMapInjective ==
    (width * height) % 8 = 0 =>
        \A p \in Coords, q \in Coords :
            (p[1] >= 1 /\ q[1] >= 1 /\ p # q) =>
                <<PixelAddr(p[1], p[2]), PixelBit(p[2])>>
                    # <<PixelAddr(q[1], q[2]), PixelBit(q[2])>>

\* C3: after an in-range pixel(x, y, WHITE) the addressed bit of the
\* black/white plane is 1, after pixel(x, y, BLACK) it is 0, and after
\* pixel(x, y, RED) the addressed bit of the red plane is 0, with x = 0
\* addressed as x = 1.
C3_PixelSetsBit ==
    LastPixelInRange =>
        LET addr == SpecAddr(last.x, last.y)
            bit == SpecBit(last.y)
        IN  /\ last.color = WHITE => Bit(sram[addr], bit) = 1
            /\ last.color = BLACK => Bit(sram[addr], bit) = 0
            /\ last.color = RED => Bit(sram[addr + bw_bufsize], bit) = 0

C3_Witness ==
    /\ LastPixelInRange
    /\ last.color = RED
    /\ last.x = 0
    /\ Bit(last.before[SpecAddr(last.x, last.y) + bw_bufsize], SpecBit(last.y)) = 1
    /\ Bit(sram[SpecAddr(last.x, last.y) + bw_bufsize], SpecBit(last.y)) = 0

\* C4: two consecutive in-range calls pixel(x, y, INVERSE) leave the whole
\* store as it was before the first, and one such call changes exactly the
\* addressed bit of the black/white plane.
C4_InverseInvolution ==
    /\ inv.run = 2 => sram = inv.base
    /\ (LastPixelInRange /\ last.color = INVERSE) =>
           \A a \in DOMAIN sram, k \in 0..7 :
               (Bit(sram[a], k) # Bit(last.before[a], k))
                   <=> (a = SpecAddr(last.x, last.y) /\ k = SpecBit(last.y))

C4_Witness ==
    /\ inv.run = 2
    /\ LastPixelInRange
    /\ last.color = INVERSE
    /\ sram # last.before

\* C5: after fill(BLACK) the black/white plane is all 0x00 and the red plane
\* all 0xFF; after fill(WHITE) both planes are all 0xFF; after fill(RED) the
\* red plane is all 0x00 and the black/white plane was erased with a byte
\* other than 0x00.  So every pixel reads black, white or red respectively.
BwPlane == 0..(bw_bufsize - 1)

RedPlane == bw_bufsize..(bw_bufsize + red_bufsize - 1)

C5_FillPlanes ==
    last.call = "fill" =>
        /\ last.color = BLACK =>
              /\ \A a \in BwPlane : sram[a] = 0
              /\ \A a \in RedPlane : sram[a] = 255
              /\ \A p \in Coords : Bit(sram[SpecAddr(p[1], p[2])], SpecBit(p[2])) = 0
        /\ last.color = WHITE =>
              /\ \A a \in BwPlane \cup RedPlane : sram[a] = 255
              /\ \A p \in Coords : Bit(sram[SpecAddr(p[1], p[2])], SpecBit(p[2])) = 1
        /\ last.color = RED =>
              /\ \A a \in RedPlane : sram[a] = 0
              /\ \A k \in 1..Len(last.acc) :
                    last.acc[k][2] = 0 => last.acc[k][4] # 0
              /\ \A a \in BwPlane : sram[a] # 0
              /\ \A p \in Coords :
                    Bit(sram[SpecAddr(p[1], p[2]) + bw_bufsize], SpecBit(p[2])) = 0

C5_Witness ==
    /\ last.call = "fill"
    /\ last.color = RED
    /\ \E a \in RedPlane : last.before[a] # 0
    /\ \E a \in BwPlane : last.before[a] = 0

\* C6: in display() each transfer pass makes exactly bw_bufsize single-byte
\* exchanges between the return of its data-transfer command and the
\* deassertion of the chip-selects.
\* The exchanges on the bus after the last command opcode `code`.
ExchangesAfter(code) ==
    LET at == {k \in 1..Len(bus) : IsCommandByte(bus[k]) /\ bus[k].out = code}
        from == IF at = {} THEN Len(bus)
                ELSE CHOOSE k \in at : \A j \in at : j <= k
    IN  Cardinality({k \in (from + 1)..Len(bus) : bus[k].kind = "write_readinto"})

C6_ExchangeCount ==
    op = "display" =>
        /\ pc \in {"disp146", "disp147", "disp149"} => ExchangesAfter(16) = bw_bufsize
        /\ pc \in {"disp170", "disp171", "disp172"} => ExchangesAfter(19) = bw_bufsize
        /\ pc = "return" =>
              Len(SelectSeq(bus, LAMBDA e : e.kind = "write_readinto" /\ IsDataByte(e)))
                  = 2 * bw_bufsize

C6_Witness ==
    /\ op = "display"
    /\ pc = "disp170"
    /\ bw_bufsize = 2
    /\ ExchangesAfter(19) = 2

\* C7 as claimed: once a transfer pass is complete (during the settling
\* delay, during update(), when display() has returned) both chip-selects
\* are deasserted.
InCommand ==
    pc \in {"cmd51", "cmd52", "cmd53", "cmd56", "cmd58", "data71", "data72",
            "data73", "data74", "cmd64", "cmd66", "cmd67"}

UpdateLabels == {"up85", "up87", "up93", "up94", "up95", "up96"}

\* The first pass is complete and the second has not begun.
AfterPass1 == op = "display" /\ pc \in {"disp149", "disp151"}

\* The second pass is complete.
AfterPass2 ==
    /\ op = "display"
    /\ \/ pc \in {"disp172", "return", "idle"} \cup UpdateLabels
       \/ InCommand /\ ret \in UpdateLabels

C7_BothDeasserted ==
    (AfterPass1 \/ AfterPass2) => (cs = TRUE /\ sram_cs = TRUE)

\* C7 as amended: once a transfer pass is complete the two chip-selects are
\* never both asserted, because the store's stays deasserted; the display's
\* is deasserted too except inside the command() calls of update(), which
\* assert it to send each command.
C7_NeverBothAsserted ==
    (AfterPass1 \/ AfterPass2) =>
        /\ ~(cs = FALSE /\ sram_cs = FALSE)
        /\ sram_cs = TRUE
        /\ ~InCommand => cs = TRUE

C7_Witness ==
    /\ AfterPass2
    /\ InCommand
    /\ cs = FALSE
    /\ sram_cs = TRUE

\* C8 as claimed: in begin(), command() and display() every byte goes on the
\* bus while the lock is held, the lock is held for as long as a chip-select
\* the call has asserted stays asserted, and the lock is free at the return.
BusCall == op \in {"begin", "command", "display"}

\* Statements up to the call's first write of the display chip-select.
EntryLabels == {"begin40", "pu100", "cmd51", "cmd52", "cmd53"}

C8_LockWhileSelected ==
    BusCall =>
        /\ \A k \in 1..Len(bus) : bus[k].locked
        /\ (pc \notin EntryLabels \cup {"idle"} /\ (cs = FALSE \/ sram_cs = FALSE))
               => locked
        /\ pc = "return" => ~locked

\* C8 as amended: every byte goes on the bus while the lock is held and the
\* lock is free when the call returns (the lock is not held for the whole
\* time a chip-select is asserted).
C8_LockWhileTransferring ==
    BusCall =>
        /\ \A k \in 1..Len(bus) : bus[k].locked
        /\ pc \in {"return", "idle"} => ~locked

C8_Witness ==
    /\ op = "display"
    /\ pc = "return"
    /\ Len(bus) > 20
    /\ ~locked

\* C9: the resolution command 0x61 of power_up() carries exactly the four
\* data bytes height mod 256, (height div 256) mod 256, width mod 256,
\* (width div 256) mod 256; on a 152x152 panel 0x98, 0x00, 0x98, 0x00.
ResolutionAt == {k \in 1..Len(bus) : IsCommandByte(bus[k]) /\ bus[k].out = 97}

C9_ResolutionBytes ==
    \A k \in ResolutionAt :
        Len(bus) > k =>
            /\ Len(bus) >= k + 4
            /\ \A j \in 1..4 : IsDataByte(bus[k + j])
            /\ <<bus[k + 1].out, bus[k + 2].out, bus[k + 3].out, bus[k + 4].out>>
                   = <<height % 256, (height \div 256) % 256,
                       width % 256, (width \div 256) % 256>>
            /\ Len(bus) > k + 4 => IsCommandByte(bus[k + 5])
            /\ (width = 152 /\ height = 152) =>
                   <<bus[k + 1].out, bus[k + 2].out, bus[k + 3].out, bus[k + 4].out>>
                       = <<152, 0, 152, 0>>

C9_Witness ==
    /\ op = "power_up"
    /\ pc = "pu117"
    /\ width = 152 /\ height = 152
    /\ \E k \in ResolutionAt : Len(bus) = k + 4 /\ bus[k + 1].out = 152

\* C10: pixel(x, y, color) with x or y outside the panel raises nothing,
\* makes no store access and leaves the store as it was.
C10_OutOfRangeIgnored ==
    (last.call = "pixel"
     /\ (last.x < 0 \/ last.x >= width \/ last.y < 0 \/ last.y >= height)) =>
        /\ last.err = "none"
        /\ last.acc = <<>>
        /\ sram = last.before

C10_Witness ==
    /\ last.call = "pixel"
    /\ last.x = width
    /\ last.y = 0
    /\ last.color = INVERSE
    /\ sram = last.before

\* C11: image(img) with an image whose mode is not RGB, or whose size is not
\* (width, height), raises ValueError before any store access: it makes no
\* read8 or write8 and both bit-planes are as they were.
C11_ImageValidation ==
    (last.call = "image"
     /\ (last.img.mode # "RGB" \/ last.img.size # <<width, height>>)) =>
        /\ last.err = "ValueError"
        /\ last.acc = <<>>
        /\ sram = last.before

C11_Witness ==
    /\ last.call = "image"
    /\ last.img.mode = "RGB"
    /\ last.img.size = <<width, height - 1>>
    /\ last.err = "ValueError"
    /\ sram = last.before

\* C12: when command(code, data, end) returns, the display chip-select is
\* deasserted if end is true and still asserted if end is false, whether or
\* not a data payload was given, and the value returned is the byte the bus
\* shifted in during the exchange of the command byte.
\* What the bus shifted in during the exchange just made: the byte the store
\* has just stepped past when it is selected and reading, else the idle line.
ShiftedIn ==
    IF sram_cs = FALSE /\ sram_st.mode = "read"
    THEN {sram[sram_st.ptr - 1]}
    ELSE MisoIdle

C12_CommandReturn ==
    pc = "cmd67" =>
        /\ carg.end => cs = TRUE
        /\ ~carg.end => cs = FALSE
        /\ outbuf \in ShiftedIn

\* C13: a run of display() returns, its last command being power-off, if and
\* only if the poll of the busy line reads ready at the wait after power-on
\* and at the wait after display-refresh (the thread then goes on to the
\* statement after the wait); and a run that is at one of the two waits
\* while the busy line reads not-ready for ever stays at that wait for ever:
\* it sends nothing more on the bus and does not return.
\* The n-th API call is display() and is at the statement `label`.
DisplayAt(n, label) == op = "display" /\ nops = n /\ pc = label

C13_DisplayTermination ==
    /\ \A n \in 1..MaxOps :
          [](DisplayAt(n, "pu100") =>
                /\ <>DisplayAt(n, "return")
                      => (<>DisplayAt(n, "pu107") /\ <>DisplayAt(n, "up93"))
                /\ (<>DisplayAt(n, "pu107") /\ <>DisplayAt(n, "up93"))
                      => <>DisplayAt(n, "return"))
    /\ \A n \in 1..MaxOps : \A w \in {"pu102", "up87"} :
          []((DisplayAt(n, w) /\ []~busy) => [](DisplayAt(n, w)))
    /\ [](op = "display" /\ pc = "return" =>
             Opcodes(bus)[Len(Opcodes(bus))] = IL0373_POWER_OFF)

C13_Witness ==
    /\ DisplayAt(2, "up87")
    /\ busy = FALSE
    /\ Len(Opcodes(bus)) = 9

\* C14: fill_rect(x, y, w, h, color) calls draw_pixel(px, py, color) exactly
\* once for each (px, py) of the rectangle [x, x+w) x [y, y+h) that lies on
\* the panel and for no other coordinate; hline, vline, fill and pixel of
\* the base class do the same for the rectangle they cover, and rect draws
\* the coordinates of its four sides and no others; none of them raises.
\* The coordinates of the panel inside the rectangle.
Covered(x, y, w, h) ==
    {q \in Coords : x <= q[1] /\ q[1] < x + w /\ y <= q[2] /\ q[2] < y + h}

\* The call raised nothing and drew each coordinate of S once, and no other.
DrewOnce(S) ==
    /\ last.err = "none"
    /\ Len(last.acc) = Cardinality(S)
    /\ \A q \in S : \E k \in 1..Len(last.acc) :
            last.acc[k] = <<q[1], q[2], last.color>>

C14_DrawPixelOncePerCoordinate ==
    /\ last.call \in {"fill_rect", "hline", "vline", "EPD_pixel"} =>
           DrewOnce(Covered(last.x, last.y, last.w, last.h))
    /\ last.call = "EPD_fill" => DrewOnce(Coords)
    /\ last.call = "rect" =>
           /\ last.err = "none"
           /\ {<<last.acc[k][1], last.acc[k][2]>> : k \in 1..Len(last.acc)}
                  = Covered(last.x, last.y, last.w, 1)
                    \cup Covered(last.x, last.y + last.h, last.w, 1)
                    \cup Covered(last.x, last.y, 1, last.h)
                    \cup Covered(last.x + last.w, last.y, 1, last.h)

\* C15: in display() the data bytes the display controller receives after
\* DTM1 are store[0], ..., store[bw_bufsize-1] in order, the first of them
\* the byte the DTM1 command returned, and those it receives after DTM2 are
\* store[bw_bufsize], ..., store[bw_bufsize+red_bufsize-1] in order: during
\* a pass the bytes sent so far are a prefix of the plane, and when the pass
\* is over they are the whole plane.
\* The data bytes the display controller received after the last command
\* opcode `code` and before the command that followed it.
DataAfter(code) ==
    LET at == {k \in 1..Len(bus) : IsCommandByte(bus[k]) /\ bus[k].out = code}
    IN  IF at = {} THEN <<>>
        ELSE LET from == CHOOSE k \in at : \A j \in at : j <= k
                 later == {k \in (from + 1)..Len(bus) : IsCommandByte(bus[k])}
                 to == IF later = {} THEN Len(bus)
                       ELSE (CHOOSE k \in later : \A j \in later : k <= j) - 1
             IN  Outs(SelectSeq(SubSeq(bus, from + 1, to), IsDataByte))

\* store[a], ..., store[a + n - 1]
StoreBytes(a, n) == [k \in 1..n |-> sram[a + k - 1]]

C15_PlaneBytesDelivered ==
    op = "display" =>
        /\ IsPrefix(DataAfter(IL0373_DTM1), StoreBytes(0, bw_bufsize))
        /\ IsPrefix(DataAfter(IL0373_DTM2), StoreBytes(bw_bufsize, red_bufsize))
        /\ pc = "disp138" => outbuf = sram[0]
        /\ pc = "disp162" => outbuf = sram[bw_bufsize]
        /\ (AfterPass1 \/ AfterPass2 \/ pc \in {"disp146", "disp147"}) =>
               DataAfter(IL0373_DTM1) = StoreBytes(0, bw_bufsize)
        /\ (AfterPass2 \/ pc \in {"disp170", "disp171"}) =>
               DataAfter(IL0373_DTM2) = StoreBytes(bw_bufsize, red_bufsize)

C15_Witness ==
    /\ op = "display"
    /\ pc = "return"
    /\ bw_bufsize = 2
    /\ sram[0] # sram[1] /\ sram[1] # sram[2] /\ sram[2] # sram[3]
    /\ DataAfter(IL0373_DTM1) = <<sram[0], sram[1]>>
    /\ DataAfter(IL0373_DTM2) = <<sram[2], sram[3]>>

\* C16: for an RGB image of the panel's size and any store, image(img)
\* leaves the store as the calls pixel(x, y, c(img[x, y])) for y in
\* 0..height-1 and x in 0..width-1, in that order, would leave it, where c
\* is RED for (255, 0, 0), BLACK for (0, 0, 0) and WHITE for any other value.
PixelColor(v) ==
    IF v = PixRed THEN RED
    ELSE IF v = PixBlack THEN BLACK
    ELSE WHITE

\* The store after the pixel() calls of the claim from the k-th on.
RECURSIVE PixelLoop(_, _, _)
PixelLoop(s, img, k) ==
    IF k >= width * height THEN s
    ELSE PixelLoop(PixelStore(s, k % width, k \div width,
                              PixelColor(img.pix[<<k % width, k \div width>>])),
                   img, k + 1)

C16_ImageIsPixelLoop ==
    (last.call = "image" /\ last.err = "none") =>
        sram = PixelLoop(last.before, last.img, 0)

\* C17: after Adafruit_IL0373(width, height, spi, cs_pin=C, dc_pin=D,
\* sramcs_pin=S, rst_pin=R, busy_pin=B) every statement uses the argument
\* passed for its role: a chip-select write drives C, a data/command write
\* drives D, the reset pulse drives R, a busy poll reads B, a lock, unlock,
\* write or exchange goes to spi, and the store, which pixel() and fill()
\* and the store chip-select writes of display() use, is built on S and spi.
C17_ArgumentRoles ==
    /\ pc \in CsLabels => FieldArg("_cs") = "cs_pin"
    /\ pc \in DcLabels => FieldArg("_dc") = "dc_pin"
    /\ pc \in RstLabels => FieldArg("_rst") = "rst_pin"
    /\ pc \in WaitLabels => FieldArg("_busy") = "busy_pin"
    /\ pc \in SpiLabels => FieldArg("spi_device") = "spi"
    /\ (pc \in SramCsLabels \/ last.call \in {"pixel", "fill"}) =>
           /\ FieldArg("sram.cs_pin") = "sramcs_pin"
           /\ FieldArg("sram.spi") = "spi"

\* C18: in begin(), command() and display() the driver calls unlock() on the
\* bus only while it holds the lock from its own try_lock(): acquisitions
\* and releases alternate and no release comes without an acquisition
\* before it.
C18_UnlockOnlyWhenHeld ==
    BusCall => ~unlock_err

\* C19: on a panel with width*height divisible by 8 an in-range
\* pixel(x, y, color) changes at most one bit of the store; with RED it
\* writes only inside the red plane and leaves the black/white plane as it
\* was, with BLACK, WHITE or INVERSE it writes only inside the black/white
\* plane and leaves the red plane as it was, and with DARK or LIGHT it
\* leaves the whole store as it was.
\* The bits in which stores s and t differ.
ChangedBits(s, t) ==
    {q \in (DOMAIN s) \X (0..7) : Bit(s[q[1]], q[2]) # Bit(t[q[1]], q[2])}

\* The addresses pixel() wrote.
Written == {last.acc[k][2] : k \in {j \in 1..Len(last.acc) : last.acc[j][1] = "write8"}}

C19_PixelFrame ==
    (LastPixelInRange /\ (width * height) % 8 = 0) =>
        /\ Cardinality(ChangedBits(last.before, sram)) <= 1
        /\ last.color = RED =>
               /\ Written \subseteq RedPlane
               /\ \A a \in (DOMAIN sram) \ RedPlane : sram[a] = last.before[a]
        /\ last.color \in {BLACK, WHITE, INVERSE} =>
               /\ Written \subseteq BwPlane
               /\ \A a \in (DOMAIN sram) \ BwPlane : sram[a] = last.before[a]
        /\ last.color \in {DARK, LIGHT} => sram = last.before

C19_Witness ==
    /\ LastPixelInRange
    /\ (width * height) % 8 = 0
    /\ last.color = RED
    /\ Cardinality(ChangedBits(last.before, sram)) = 1
    /\ \E a \in RedPlane : sram[a] # last.before[a]

\* C20: in every run of display(), the first and the later ones, the bytes
\* of the store's protocol (the sequential-read opcode and the two address
\* bytes, for each plane) go on the bus while the display chip-select is
\* deasserted: the display controller receives none of them.
\* The statements of display() that write the store's protocol bytes.
StoreWriteLabels == {"disp129", "disp131", "disp153", "disp155"}

\* A byte written while the store is selected.
IsStoreWrite(e) == e.kind = "write" /\ e.sram_cs = FALSE

\* SRAM_READ and the start address, for the black/white and the red plane.
StoreProtocol ==
    <<SRAM_READ, 0, 0, SRAM_READ, bw_bufsize \div 256, bw_bufsize % 256>>

C20_StoreBytesNotToDisplay ==
    op = "display" =>
        /\ pc \in StoreWriteLabels => cs = TRUE
        /\ \A k \in 1..Len(bus) : IsStoreWrite(bus[k]) => bus[k].cs = TRUE
        /\ IsPrefix(Outs(SelectSeq(bus, IsStoreWrite)), StoreProtocol)
        /\ pc = "return" => Outs(SelectSeq(bus, IsStoreWrite)) = StoreProtocol

C20_Witness ==
    /\ op = "display"
    /\ nops = 2
    /\ pc = "disp156"
    /\ Outs(SelectSeq(bus, IsStoreWrite)) = StoreProtocol
    /\ cs = TRUE

====
